---- MODULE Spec2Model ----
(***************************************************************************)
(* PortfolioOptimizer (app/optimizer.py): the optimize call as a state     *)
(* machine.  One optimizer instance is constructed from a returns table;   *)
(* optimize is then called any number of times.  Every float of the        *)
(* program is an exact rational here (or inf / -inf / nan, the values      *)
(* numpy produces on a division by zero).                                  *)
(***************************************************************************)
EXTENDS Integers, Sequences, FiniteSets, TLC

\* ------------------------------------------------------------ bounds
\* Scalar inputs (returns, risk_level, max_weight, min_weight,
\* target_return, risk_free_rate) are multiples of 1/Den.
Den == 10
\* The optimizer holds 1..MaxAssets asset columns.
MaxAssets == 3
\* The solver's weight vectors lie on the grid of multiples of 1/(n*Res).
Res == 2

\* ------------------------------------------------------------ Optional
None == <<>>
Some(v) == <<v>>
Val(o) == o[1]

\* ------------------------------------------------------------ floats
Abs(x) == IF x < 0 THEN -x ELSE x

RECURSIVE GCD(_, _)
GCD(a, b) == IF b = 0 THEN a ELSE GCD(b, a % b)

Inf == [k |-> "inf", n |-> 0, d |-> 1]
NInf == [k |-> "ninf", n |-> 0, d |-> 1]
NaN == [k |-> "nan", n |-> 0, d |-> 1]

\* The rational n/d (d # 0) in lowest terms with a positive denominator.
F(n, d) ==
    LET s == IF d < 0 THEN -1 ELSE 1
        g == GCD(Abs(n), Abs(d))
    IN  [k |-> "fin", n |-> (s * n) \div g, d |-> (s * d) \div g]

IsFin(a) == a.k = "fin"

FNeg(a) ==
    CASE a.k = "fin" -> F(-a.n, a.d)
      [] a.k = "inf" -> NInf
      [] a.k = "ninf" -> Inf
      [] OTHER -> NaN

FAdd(a, b) ==
    CASE a.k = "nan" \/ b.k = "nan" -> NaN
      [] a.k = "fin" /\ b.k = "fin" -> F(a.n * b.d + b.n * a.d, a.d * b.d)
      [] a.k = "fin" -> b
      [] b.k = "fin" -> a
      [] a.k = b.k -> a
      [] OTHER -> NaN

FSub(a, b) == FAdd(a, FNeg(b))

Sign(a) ==
    CASE a.k = "inf" -> 1
      [] a.k = "ninf" -> -1
      [] a.k = "fin" -> IF a.n > 0 THEN 1 ELSE IF a.n < 0 THEN -1 ELSE 0
      [] OTHER -> 0

FMul(a, b) ==
    CASE a.k = "nan" \/ b.k = "nan" -> NaN
      [] a.k = "fin" /\ b.k = "fin" -> F(a.n * b.n, a.d * b.d)
      [] Sign(a) * Sign(b) > 0 -> Inf
      [] Sign(a) * Sign(b) < 0 -> NInf
      [] OTHER -> NaN

\* numpy float division: x/0 is inf, -inf or nan, never an exception.
FDiv(a, b) ==
    CASE a.k = "nan" \/ b.k = "nan" -> NaN
      [] a.k = "fin" /\ b.k = "fin" ->
            IF b.n # 0 THEN F(a.n * b.d, a.d * b.n)
            ELSE IF a.n > 0 THEN Inf ELSE IF a.n < 0 THEN NInf ELSE NaN
      [] a.k = "fin" -> F(0, 1)
      [] b.k = "fin" -> IF Sign(a) * (IF b.n < 0 THEN -1 ELSE 1) > 0 THEN Inf ELSE NInf
      [] OTHER -> NaN

\* a <= b; every comparison with nan is false.
FLe(a, b) ==
    CASE a.k = "nan" \/ b.k = "nan" -> FALSE
      [] a.k = "fin" /\ b.k = "fin" -> a.n * b.d <= b.n * a.d
      [] OTHER -> a.k = "ninf" \/ b.k = "inf"

RECURSIVE ISqrtFrom(_, _)
ISqrtFrom(x, r) == IF (r + 1) * (r + 1) > x THEN r ELSE ISqrtFrom(x, r + 1)

\* np.sqrt, rounded down to a multiple of 1/Den; nan for a negative argument.
FSqrt(a) ==
    CASE a.k = "nan" \/ a.k = "ninf" -> NaN
      [] a.k = "inf" -> Inf
      [] a.n < 0 -> NaN
      [] OTHER -> F(ISqrtFrom((a.n * Den * Den) \div a.d, 0), Den)

RECURSIVE FSum(_)
FSum(s) == IF s = <<>> THEN F(0, 1) ELSE FAdd(s[1], FSum(Tail(s)))

\* ------------------------------------------------------------ data
\* One asset column: its historical returns, in units of 1/Den.
AssetSeries == {<<1, 1>>, <<1, 3>>, <<4, 0>>}

\* Lexicographic order on series of equal length.
RECURSIVE SeriesLe(_, _)
SeriesLe(a, b) ==
    \/ a = <<>>
    \/ a[1] < b[1]
    \/ a[1] = b[1] /\ SeriesLe(Tail(a), Tail(b))

\* The returns tables the optimizer is constructed from: 1..MaxAssets
\* columns, no missing values.  Column i is the asset with label i.  The
\* program treats all columns alike, so one order of the columns stands for
\* all of them.
ReturnsTables ==
    UNION {{t \in [1..n -> AssetSeries] :
                \A i \in 1..(n - 1) : SeriesLe(t[i], t[i + 1])} : n \in 1..MaxAssets}

RECURSIVE SeqSum(_)
SeqSum(s) == IF s = <<>> THEN 0 ELSE s[1] + SeqSum(Tail(s))

\* DataFrame.mean(): the mean of one column.
ColumnMean(col) == FDiv(F(SeqSum(col), Den), F(Len(col), 1))

\* DataFrame.cov(): the sample covariance (ddof = 1) of two columns.
ColumnCov(a, b) ==
    LET dev(col, t) == FSub(F(col[t], Den), ColumnMean(col))
    IN  FDiv(FSum([t \in 1..Len(a) |-> FMul(dev(a, t), dev(b, t))]),
             F(Len(a) - 1, 1))

DefaultRiskFreeRate == F(2, 100)

\* The arguments optimize is called with, in units of 1/Den.
RiskLevels == {-1, 0, 1, Den, Den + 5}
MaxWeights == {-1, 0, 3, 5, 7, Den, Den + 5}
MinWeights == {None} \cup {Some(v) : v \in {-1, 0, 3, 6}}
TargetReturns == {None, Some(2)}

VARIABLES
    returns, risk_free_rate, mean_returns, cov_matrix, n_assets,  \* self.*
    risk_level, max_weight, min_weight, target_return,            \* arguments
    pc,            \* position in optimize
    result,        \* what minimize returned (None before the solver ran)
    objective0,    \* the solver's first objective evaluation, at x0
    solver_calls,  \* number of minimize calls made by this optimize call
    returned,      \* the returned dictionary (None if nothing was returned)
    raised,        \* the exception optimize raised (None if none)
    hpc,           \* position in the optimize_portfolio request handler
    upload,        \* the uploaded table, not yet read (None otherwise)
    df,            \* the handler's DataFrame after dropna (None before)
    response       \* the HTTP response of the request (None before)

request == <<hpc, upload, df, response>>
self == <<returns, risk_free_rate, mean_returns, cov_matrix, n_assets>>
args == <<risk_level, max_weight, min_weight, target_return>>
vars == <<self, args, pc, result, objective0, solver_calls, returned, raised, request>>

\* PortfolioOptimizer.__init__, the optimizer used directly (no request).
Init ==
    /\ hpc = "direct" /\ upload = None /\ df = None /\ response = None
    /\ returns \in ReturnsTables
    /\ risk_free_rate = DefaultRiskFreeRate
    /\ mean_returns = [i \in DOMAIN returns |-> ColumnMean(returns[i])]
    /\ cov_matrix = [i \in DOMAIN returns |->
                        [j \in DOMAIN returns |-> ColumnCov(returns[i], returns[j])]]
    /\ n_assets = Len(returns)
    /\ risk_level = 0 /\ max_weight = 0 /\ min_weight = None /\ target_return = None
    /\ pc = "idle"
    /\ result = None /\ objective0 = None /\ solver_calls = 0
    /\ returned = None /\ raised = None

\* ------------------------------------------------------------ statistics
\* np.sum(self.mean_returns * weights)
PortfolioReturn(weights) ==
    FSum([i \in 1..n_assets |-> FMul(mean_returns[i], weights[i])])

\* np.dot(weights.T, np.dot(self.cov_matrix, weights))
PortfolioVariance(weights) ==
    FSum([i \in 1..n_assets |->
            FMul(weights[i],
                 FSum([j \in 1..n_assets |-> FMul(cov_matrix[i][j], weights[j])]))])

\* _portfolio_stats: <<portfolio_return, portfolio_vol, sharpe_ratio>>
PortfolioStats(weights) ==
    LET portfolio_return == PortfolioReturn(weights)
        portfolio_vol == FSqrt(PortfolioVariance(weights))
        sharpe_ratio == FDiv(FSub(portfolio_return, risk_free_rate), portfolio_vol)
    IN  <<portfolio_return, portfolio_vol, sharpe_ratio>>

\* vol_penalty = 1000 * (portfolio_vol - target_vol) ** 2
VolPenalty(portfolio_vol, target_vol) ==
    LET dev == FSub(portfolio_vol, target_vol)
    IN  FMul(F(1000, 1), FMul(dev, dev))

\* _objective(weights, target_vol = None); target_vol is None or Some(float).
Objective(weights, target_vol) ==
    LET stats == PortfolioStats(weights)
    IN  IF target_vol # None
        THEN FAdd(FNeg(stats[3]), VolPenalty(stats[2], Val(target_vol)))
        ELSE FNeg(stats[3])

\* ------------------------------------------------------------ optimize
ValueError(parts) == [type |-> "ValueError", msg |-> parts]

RiskLevelMsg == "risk_level must be between 0 and 1"
MaxWeightMsg == "max_weight must be between 0 and 1"
MinWeightMsg == "min_weight must be between 0 and max_weight"
ImpossibleMsg == "Impossible to construct portfolio: max_weight * n_assets ("
FailedMsg == "Portfolio optimization failed: "

\* The conditions of the four validation ifs.
RiskLevelInvalid(rl) == rl <= 0 \/ rl > Den
MaxWeightInvalid(mx) == mx <= 0 \/ mx > Den
\* The bug of checking only the sign of min_weight.
MinWeightInvalid_NoUpper(mn, mx) == mn # None /\ Val(mn) < 0

MinWeightInvalid(mn, mx) == mn # None /\ (Val(mn) < 0 \/ Val(mn) > mx)
Infeasible(mx, n) == mx * n < Den

\* The bug of dividing by one asset too many.
InitialWeights_OffByOne(n) == [i \in 1..n |-> FDiv(F(1, 1), F(n + 1, 1))]

\* initial_weights = np.array([1/self.n_assets] * self.n_assets)
InitialWeights(n) == [i \in 1..n |-> FDiv(F(1, 1), F(n, 1))]

\* bounds: (min_weight or 0, max_weight) for every asset
LowerBound(mn) == IF mn = None \/ Val(mn) = 0 THEN F(0, 1) ELSE F(Val(mn), Den)
UpperBound(mx) == F(mx, Den)

\* The bug of leaving out the sum-to-one constraint.
Constraints_NoSum(tr) ==
    IF tr # None
    THEN <<[type |-> "eq", fun |-> "return", target |-> F(Val(tr), Den)]>>
    ELSE <<>>

\* constraints: weights sum to 1, and the target return if one is given
Constraints(tr) ==
    <<[type |-> "eq", fun |-> "sum", target |-> F(1, 1)]>>
    \o (IF tr # None
        THEN <<[type |-> "eq", fun |-> "return", target |-> F(Val(tr), Den)]>>
        ELSE <<>>)

\* The value of a constraint function at x (zero when the constraint holds).
ConstraintFun(c, x) ==
    IF c.fun = "sum" THEN FSub(FSum(x), c.target)
    ELSE FSub(PortfolioReturn(x), c.target)

\* The call without args: the objective's target_vol stays None.
SolverArgs_Empty(rl) == <<>>

\* args=(risk_level,): the extra arguments minimize passes to the objective.
SolverArgs(rl) == <<F(rl, Den)>>

\* fun(x, *args) as minimize calls it.
CallObjective(x, extra) ==
    IF extra = <<>> THEN Objective(x, None) ELSE Objective(x, Some(extra[1]))

\* ------------------------------------------------------------ the solver
\* scipy.optimize.minimize(method='SLSQP') is outside the repository.  It is
\* modelled by its contract: it evaluates the objective at x0, then either
\* reports success with a point that satisfies the bounds and every equality
\* constraint, or reports failure with its last iterate (some point of the
\* box), or raises.  Points are taken on the grid of multiples of 1/(n*Res).
GridUnits(n) == n * Res

BoxUnits(n, lo, hi) ==
    {k \in 0..GridUnits(n) : FLe(lo, F(k, GridUnits(n))) /\ FLe(F(k, GridUnits(n)), hi)}

\* The sequences of `len` elements of S that sum to `total`.
RECURSIVE Compositions(_, _, _)
Compositions(len, total, S) ==
    IF len = 0 THEN (IF total = 0 THEN {<<>>} ELSE {})
    ELSE UNION {{<<k>> \o r : r \in Compositions(len - 1, total - k, S)} :
                    k \in {j \in S : j <= total}}

ToWeights(n, ks) == [i \in 1..n |-> F(ks[i], GridUnits(n))]

\* The grid points of the box.  When the weights are constrained to sum to
\* 1 only the points that do are enumerated.
BoxPoints(n, lo, hi, constraints) ==
    LET S == BoxUnits(n, lo, hi)
        ks == IF \E c \in 1..Len(constraints) : constraints[c].fun = "sum"
              THEN Compositions(n, GridUnits(n), S)
              ELSE [1..n -> S]
    IN  {ToWeights(n, k) : k \in ks}

\* The grid points that satisfy the bounds and every constraint.
FeasiblePoints(n, lo, hi, constraints) ==
    {x \in BoxPoints(n, lo, hi, constraints) :
        \A c \in 1..Len(constraints) : ConstraintFun(constraints[c], x) = F(0, 1)}

\* Where a failed solve stops: some point of the box (optimize never reads
\* it; two corners of the box stand for all of them).
LastIterates(n, lo, hi) == {[i \in 1..n |-> lo], [i \in 1..n |-> hi]}

FailureMessages == {"Iteration limit reached"}
SolverExceptions == {[type |-> "LinAlgError", msg |-> <<"SVD did not converge">>]}

\* ------------------------------------------------------------ actions
\* optimizer.optimize(risk_level, max_weight, min_weight, target_return)
\* The bug of checking max_weight before risk_level.
ValidationOrder_MaxFirst ==
    <<"check_max_weight", "check_risk_level", "check_min_weight", "check_feasible">>

\* The order of the validation ifs.
ValidationOrder ==
    <<"check_risk_level", "check_max_weight", "check_min_weight", "check_feasible">>

\* The statement that follows a validation if whose condition was false.
AfterCheck(check) ==
    LET i == CHOOSE j \in 1..Len(ValidationOrder) : ValidationOrder[j] = check
    IN  IF i < Len(ValidationOrder) THEN ValidationOrder[i + 1]
        ELSE IF n_assets = 1 THEN "single_asset" ELSE "solve"

Optimize(rl, mx, mn, tr) ==
    /\ pc = "idle"
    /\ risk_level' = rl /\ max_weight' = mx /\ min_weight' = mn /\ target_return' = tr
    /\ pc' = ValidationOrder[1]
    /\ UNCHANGED <<request, self, result, objective0, solver_calls, returned, raised>>

\* The call has ended (a return or a raise): its frame is discarded and the
\* optimizer, which optimize never modifies, is ready for the next call.
Finish ==
    /\ pc = "done"
    /\ risk_level' = 0 /\ max_weight' = 0 /\ min_weight' = None /\ target_return' = None
    /\ pc' = "idle"
    /\ result' = None /\ objective0' = None /\ solver_calls' = 0
    /\ returned' = None /\ raised' = None
    /\ UNCHANGED <<request, self>>

Raise(e) ==
    /\ raised' = Some(e)
    /\ pc' = "done"
    /\ UNCHANGED <<request, self, args, result, objective0, solver_calls, returned>>

Goto(next) ==
    /\ pc' = next
    /\ UNCHANGED <<request, self, args, result, objective0, solver_calls, returned, raised>>

\* if risk_level <= 0 or risk_level > 1: raise
CheckRiskLevel ==
    /\ pc = "check_risk_level"
    /\ IF RiskLevelInvalid(risk_level)
       THEN Raise(ValueError(<<RiskLevelMsg>>))
       ELSE Goto(AfterCheck("check_risk_level"))

\* if max_weight <= 0 or max_weight > 1: raise
CheckMaxWeight ==
    /\ pc = "check_max_weight"
    /\ IF MaxWeightInvalid(max_weight)
       THEN Raise(ValueError(<<MaxWeightMsg>>))
       ELSE Goto(AfterCheck("check_max_weight"))

\* if min_weight is not None and (min_weight < 0 or min_weight > max_weight): raise
CheckMinWeight ==
    /\ pc = "check_min_weight"
    /\ IF MinWeightInvalid(min_weight, max_weight)
       THEN Raise(ValueError(<<MinWeightMsg>>))
       ELSE Goto(AfterCheck("check_min_weight"))

\* The bug of formatting max_weight instead of the product.
ImpossibleError_NoProduct(mx, n) == ValueError(<<ImpossibleMsg, F(mx, Den), ") < 1">>)

\* f"Impossible to construct portfolio: max_weight * n_assets ({max_weight * self.n_assets}) < 1"
ImpossibleError(mx, n) == ValueError(<<ImpossibleMsg, F(mx * n, Den), ") < 1">>)

\* if max_weight * self.n_assets < 1: raise, the product in the message
CheckFeasible ==
    /\ pc = "check_feasible"
    /\ IF Infeasible(max_weight, n_assets)
       THEN Raise(ImpossibleError(max_weight, n_assets))
       ELSE Goto(AfterCheck("check_feasible"))

\* The dictionary optimize returns (the timestamp left out).
Result(weights, expected_return, expected_vol, sharpe_ratio) ==
    [optimal_portfolio |-> [c \in DOMAIN returns |-> weights[c]],
     expected_return |-> expected_return,
     expected_volatility |-> expected_vol,
     sharpe_ratio |-> sharpe_ratio]

\* The bug of reporting the variance as the volatility.
SingleAssetResult_Variance ==
    Result(<<F(1, 1)>>,
           mean_returns[1],
           cov_matrix[1][1],
           FDiv(FSub(mean_returns[1], risk_free_rate), FSqrt(cov_matrix[1][1])))

\* if self.n_assets == 1: return {column: 1.0}, its mean, sqrt of its variance
SingleAssetResult ==
    Result(<<F(1, 1)>>,
           mean_returns[1],
           FSqrt(cov_matrix[1][1]),
           FDiv(FSub(mean_returns[1], risk_free_rate), FSqrt(cov_matrix[1][1])))

SingleAsset ==
    /\ pc = "single_asset"
    /\ returned' = Some(SingleAssetResult)
    /\ pc' = "done"
    /\ UNCHANGED <<request, self, args, result, objective0, solver_calls, raised>>

\* What the minimize call is given.
Bounds == <<LowerBound(min_weight), UpperBound(max_weight)>>

\* minimize first evaluates fun(x0, *args).
FirstEvaluation == CallObjective(InitialWeights(n_assets), SolverArgs(risk_level))

Minimized(res, f0) ==
    /\ result' = Some(res)
    /\ objective0' = Some(f0)
    /\ solver_calls' = solver_calls + 1
    /\ pc' = "select"
    /\ UNCHANGED <<request, self, args, returned, raised>>

\* minimize(...) returns with result.success
SolverSucceeds ==
    /\ pc = "solve"
    /\ LET f0 == FirstEvaluation
       IN  \E x \in FeasiblePoints(n_assets, Bounds[1], Bounds[2],
                                   Constraints(target_return)) :
              Minimized([success |-> TRUE, x |-> x,
                         message |-> "Optimization terminated successfully"], f0)

\* minimize(...) returns with result.success false
SolverFails ==
    /\ pc = "solve"
    /\ LET f0 == FirstEvaluation
       IN  \E x \in LastIterates(n_assets, Bounds[1], Bounds[2]), m \in FailureMessages :
              Minimized([success |-> FALSE, x |-> x, message |-> m], f0)

\* The bug of letting the original exception through.
ExceptHandler_Reraise(e) == e

\* except Exception as e: raise ValueError(f"Portfolio optimization failed: {str(e)}")
ExceptHandler(e) == ValueError(<<FailedMsg>> \o e.msg)

\* minimize(...) raises; the except clause re-raises
SolverRaises ==
    /\ pc = "solve"
    /\ \E e \in SolverExceptions :
          /\ raised' = Some(ExceptHandler(e))
          /\ objective0' = Some(FirstEvaluation)
          /\ solver_calls' = solver_calls + 1
          /\ pc' = "done"
          /\ UNCHANGED <<request, self, args, result, returned>>

\* The bug of using the solver's vector whether or not it converged.
SelectWeights_AlwaysSolver(res, initial_weights) == res.x

\* weights = initial_weights if not result.success else result.x
SelectWeights(res, initial_weights) ==
    IF ~res.success THEN initial_weights ELSE res.x

\* The statistics of the selected vector, and the return.
ReturnResult ==
    /\ pc = "select"
    /\ LET weights == SelectWeights(Val(result), InitialWeights(n_assets))
           stats == PortfolioStats(weights)
       IN  returned' = Some(Result(weights, stats[1], stats[2], stats[3]))
    /\ pc' = "done"
    /\ UNCHANGED <<request, self, args, result, objective0, solver_calls, raised>>

Next ==
    \/ \E rl \in RiskLevels, mx \in MaxWeights, mn \in MinWeights, tr \in TargetReturns :
          Optimize(rl, mx, mn, tr)
    \/ CheckRiskLevel
    \/ CheckMaxWeight
    \/ CheckMinWeight
    \/ CheckFeasible
    \/ SingleAsset
    \/ SolverSucceeds
    \/ SolverFails
    \/ SolverRaises
    \/ ReturnResult
    \/ Finish

Spec == Init /\ [][Next]_vars

\* ------------------------------------------------------------ the endpoint
\* POST /optimize-portfolio (app/main.py).  Each request reads the uploaded
\* CSV, drops the rows with missing values, constructs a fresh optimizer and
\* calls optimize with the form fields.

\* Table t (its data columns, after the index column) with the cells of
\* `missing` left blank: a cell is Some(value) or None.
Blank(t, missing) ==
    [c \in DOMAIN t |->
        [r \in DOMAIN t[c] |-> IF <<r, c>> \in missing THEN None ELSE Some(t[c][r])]]

\* The uploaded tables: any set of cells of the first and the last column
\* may be blank.
Uploads ==
    UNION {{Blank(t, m) : m \in SUBSET ({r \in DOMAIN t[1] : TRUE} \X {1, Len(t)})} :
              t \in ReturnsTables}

\* df.dropna(): the rows without a missing value, in their order.
DropNa(t) ==
    LET complete(r) == \A c \in DOMAIN t : t[c][r] # None
        kept[c \in DOMAIN t, i \in 0..Len(t[1])] ==
            IF i = 0 THEN <<>>
            ELSE IF complete(i) THEN Append(kept[c, i - 1], Val(t[c][i]))
            ELSE kept[c, i - 1]
    IN  [c \in DOMAIN t |-> kept[c, Len(t[1])]]

\* df.empty: no column or no row.
DfEmpty(d) == Len(d) = 0 \/ Len(d[1]) = 0

NoValidDataMsg ==
    "The uploaded file contains no valid data after removing missing values"
UnexpectedMsg == "An unexpected error occurred during portfolio optimization"

HTTPException(status_code, detail) ==
    [type |-> "HTTPException", status_code |-> status_code, msg |-> detail]

\* What reading and parsing the upload can raise.
UploadExceptions ==
    {[type |-> "UnicodeDecodeError", msg |-> <<"invalid start byte">>],
     [type |-> "IndexError", msg |-> <<"index 0 is out of bounds">>]}

\* isinstance(e, ValueError): HTTPException derives from Exception only.
IsValueError(e) == e.type \in {"ValueError", "UnicodeDecodeError"}

\* The except clauses of the handler, for an exception raised in its try
\* block: except ValueError -> 400 with str(e); except Exception -> 500.
Catch(e) ==
    IF IsValueError(e) THEN HTTPException(400, e.msg)
    ELSE HTTPException(500, <<UnexpectedMsg>>)

\* The response FastAPI sends for an HTTPException leaving the handler.
ErrorResponse(e) == [status_code |-> e.status_code, detail |-> e.msg, body |-> <<>>]

\* return {"optimal_portfolio": result["optimal_portfolio"]}
OkResponse(res) == [status_code |-> 200, detail |-> <<>>, body |-> res.optimal_portfolio]

\* No optimizer exists and no optimize call is in progress.
NoOptimizer ==
    /\ returns = <<>> /\ mean_returns = <<>> /\ cov_matrix = <<>> /\ n_assets = 0
    /\ risk_free_rate = DefaultRiskFreeRate
    /\ risk_level = 0 /\ max_weight = 0 /\ min_weight = None /\ target_return = None
    /\ pc = "idle"
    /\ result = None /\ objective0 = None /\ solver_calls = 0
    /\ returned = None /\ raised = None

EndpointInit ==
    /\ hpc = "ready" /\ upload = None /\ df = None /\ response = None
    /\ NoOptimizer

optimizeFrame == <<args, pc, result, objective0, solver_calls, returned, raised>>

\* A request arrives with its file.
Receive(u) ==
    /\ hpc = "ready"
    /\ upload' = Some(u)
    /\ hpc' = "read"
    /\ UNCHANGED <<df, response, self, optimizeFrame>>

\* contents = await file.read() ... df = df.dropna(); if df.empty: raise
\* HTTPException(400), inside the try block.
ReadUpload ==
    /\ hpc = "read"
    /\ LET d == DropNa(Val(upload))
       IN  /\ df' = Some(d)
           /\ IF DfEmpty(d)
              THEN /\ response' = Some(ErrorResponse(Catch(HTTPException(400, <<NoValidDataMsg>>))))
                   /\ hpc' = "responded"
              ELSE /\ response' = response
                   /\ hpc' = "construct"
    /\ upload' = None
    /\ UNCHANGED <<self, optimizeFrame>>

\* Reading or parsing the upload raises.
ReadFails ==
    /\ hpc = "read"
    /\ \E e \in UploadExceptions : response' = Some(ErrorResponse(Catch(e)))
    /\ hpc' = "responded"
    /\ upload' = None
    /\ UNCHANGED <<df, self, optimizeFrame>>

\* optimizer = PortfolioOptimizer(df)
Construct ==
    /\ hpc = "construct"
    /\ returns' = Val(df)
    /\ mean_returns' = [i \in DOMAIN Val(df) |-> ColumnMean(Val(df)[i])]
    /\ cov_matrix' = [i \in DOMAIN Val(df) |->
                         [j \in DOMAIN Val(df) |-> ColumnCov(Val(df)[i], Val(df)[j])]]
    /\ n_assets' = Len(Val(df))
    /\ hpc' = "optimizing"
    /\ UNCHANGED <<risk_free_rate, upload, df, response, optimizeFrame>>

\* result = optimizer.optimize(risk_level=..., ...) with the form fields
CallOptimize ==
    /\ hpc = "optimizing"
    /\ \E rl \in RiskLevels, mx \in MaxWeights, mn \in MinWeights, tr \in TargetReturns :
          Optimize(rl, mx, mn, tr)

\* optimize has returned or raised: the handler returns the portfolio, or
\* its except clauses turn the exception into an HTTPException.
OptimizeEnds ==
    /\ hpc = "optimizing" /\ pc = "done"
    /\ response' = IF returned # None THEN Some(OkResponse(Val(returned)))
                   ELSE Some(ErrorResponse(Catch(Val(raised))))
    /\ hpc' = "responded"
    /\ UNCHANGED <<upload, df, self, optimizeFrame>>

\* The response is sent; the request's locals, the optimizer among them, are
\* gone and the next request can arrive.
NextRequest ==
    /\ hpc = "responded"
    /\ hpc' = "ready" /\ upload' = None /\ df' = None /\ response' = None
    /\ returns' = <<>> /\ mean_returns' = <<>> /\ cov_matrix' = <<>> /\ n_assets' = 0
    /\ risk_level' = 0 /\ max_weight' = 0 /\ min_weight' = None /\ target_return' = None
    /\ pc' = "idle"
    /\ result' = None /\ objective0' = None /\ solver_calls' = 0
    /\ returned' = None /\ raised' = None
    /\ UNCHANGED risk_free_rate

EndpointNext ==
    \/ \E u \in Uploads : Receive(u)
    \/ ReadUpload
    \/ ReadFails
    \/ Construct
    \/ CallOptimize
    \/ CheckRiskLevel
    \/ CheckMaxWeight
    \/ CheckMinWeight
    \/ CheckFeasible
    \/ SingleAsset
    \/ SolverSucceeds
    \/ SolverFails
    \/ SolverRaises
    \/ ReturnResult
    \/ OptimizeEnds
    \/ NextRequest

EndpointSpec == EndpointInit /\ [][EndpointNext]_vars

\* ------------------------------------------------------------ properties
\* The call has ended, by a return or by a raise.
Ended == pc = "done"

\* The three parameter ranges, as the specification states them.
RiskLevelInRange == 0 < risk_level /\ risk_level <= Den
MaxWeightInRange == 0 < max_weight /\ max_weight <= Den
MinWeightInRange ==
    min_weight = None \/ (0 <= Val(min_weight) /\ Val(min_weight) <= max_weight)
RangesOk == RiskLevelInRange /\ MaxWeightInRange /\ MinWeightInRange
ProductBelowOne == max_weight * n_assets < Den
InputsValid == RangesOk /\ ~ProductBelowOne

RangeMessages == {RiskLevelMsg, MaxWeightMsg, MinWeightMsg}
RaisedMsg == Val(raised).msg
Portfolio == Val(returned).optimal_portfolio
SolverReturned == result # None
One == F(1, 1)
Zero == F(0, 1)

\* C1: every weight of a result returned for valid inputs lies in
\* [min_weight or 0, max_weight], whichever vector was selected.
C1_WeightsWithinBounds ==
    (Ended /\ InputsValid /\ returned # None) =>
        \A c \in DOMAIN Portfolio :
            /\ FLe(IF min_weight = None THEN Zero ELSE F(Val(min_weight), Den), Portfolio[c])
            /\ FLe(Portfolio[c], F(max_weight, Den))

\* C2: the weights of every returned portfolio sum to 1, on the single-asset
\* path, on solver success and on the equal-weights fallback, and the
\* portfolio has exactly one entry per asset column.
C2_WeightsSumToOne ==
    (Ended /\ returned # None) =>
        /\ InputsValid
        /\ DOMAIN Portfolio = DOMAIN returns
        /\ Cardinality(DOMAIN Portfolio) = n_assets
        /\ FSum([i \in 1..n_assets |-> Portfolio[i]]) = One

\* A multi-asset call has returned a solver vector that is not the equal
\* weights.
C2_Witness ==
    /\ Ended /\ returned # None /\ n_assets = MaxAssets
    /\ SolverReturned /\ Val(result).success
    /\ Portfolio[1] # F(1, n_assets)

\* C3 as stated: whenever max_weight * n_assets < 1 the call ends in the
\* infeasible-constraint error, whatever the other arguments are.
C3_InfeasibleAlwaysReported ==
    (Ended /\ ProductBelowOne) =>
        /\ raised # None
        /\ RaisedMsg[1] = ImpossibleMsg

\* C3 amended: whenever the three range checks pass and
\* max_weight * n_assets < 1, the call ends in the infeasible-constraint
\* error, its message holds the product max_weight * n_assets, nothing is
\* returned and the solver is never invoked.
C3_InfeasibleReported ==
    (Ended /\ RangesOk /\ ProductBelowOne) =>
        /\ raised # None
        /\ Val(raised).type = "ValueError"
        /\ Len(RaisedMsg) = 3
        /\ RaisedMsg[1] = ImpossibleMsg
        /\ RaisedMsg[2] = F(max_weight * n_assets, Den)
        /\ returned = None
        /\ solver_calls = 0 /\ result = None

\* Two assets and max_weight = 0.3: the infeasible-constraint error.
C3_Witness ==
    /\ Ended /\ RangesOk /\ n_assets = 2 /\ max_weight = 3
    /\ raised # None /\ RaisedMsg[1] = ImpossibleMsg

\* C4: a call with risk_level outside (0,1], max_weight outside (0,1], or a
\* min_weight that is negative or above max_weight ends in one of the three
\* range errors, returns nothing and never invokes the solver; a call whose
\* three parameters are in range ends in no range error.
C4_RangeValidation ==
    Ended =>
        /\ ~RangesOk =>
              /\ raised # None
              /\ Val(raised).type = "ValueError"
              /\ RaisedMsg[1] \in RangeMessages
              /\ returned = None
              /\ solver_calls = 0 /\ result = None
        /\ RangesOk => (raised = None \/ RaisedMsg[1] \notin RangeMessages)

\* min_weight = 0.6 above max_weight = 0.5, the other ranges respected.
C4_Witness ==
    /\ Ended /\ RiskLevelInRange /\ max_weight = 5 /\ min_weight = Some(6)
    /\ raised # None /\ RaisedMsg[1] = MinWeightMsg

\* C5: with one asset and valid inputs the call returns {asset: 1.0}
\* exactly, the asset's mean return and the square root of its variance,
\* without invoking the solver, whatever min_weight and target_return are.
C5_SingleAsset ==
    (Ended /\ n_assets = 1 /\ InputsValid) =>
        /\ raised = None /\ returned # None
        /\ Portfolio = <<One>>
        /\ Val(returned).expected_return = ColumnMean(returns[1])
        /\ Val(returned).expected_volatility = FSqrt(ColumnCov(returns[1], returns[1]))
        /\ solver_calls = 0 /\ result = None /\ objective0 = None

\* A single-asset call with min_weight and target_return given has returned;
\* the asset's variance is not zero.
C5_Witness ==
    /\ Ended /\ n_assets = 1 /\ returned # None
    /\ min_weight # None /\ target_return # None
    /\ ColumnCov(returns[1], returns[1]) # Zero

EqualWeights == [i \in 1..n_assets |-> F(1, n_assets)]
StatsOf(r) == <<r.expected_return, r.expected_volatility, r.sharpe_ratio>>

\* C6: when the solver returns without converging, no error is raised, the
\* returned weights are 1/n_assets for every asset and the three statistics
\* are those of that vector; when it converges, the returned weights are the
\* solver's vector and the statistics are those of it.
C6_FallbackOnFailure ==
    (Ended /\ SolverReturned) =>
        /\ raised = None /\ returned # None
        /\ ~Val(result).success =>
              /\ Portfolio = EqualWeights
              /\ StatsOf(Val(returned)) = PortfolioStats(EqualWeights)
        /\ Val(result).success =>
              /\ Portfolio = Val(result).x
              /\ StatsOf(Val(returned)) = PortfolioStats(Val(result).x)

\* The solver failed at a point other than the equal weights, and the call
\* returned statistics that differ from those of that point.
C6_Witness ==
    /\ Ended /\ SolverReturned /\ ~Val(result).success
    /\ returned # None
    /\ Val(result).x # EqualWeights
    /\ PortfolioStats(Val(result).x) # PortfolioStats(EqualWeights)

SimplexFeasible(w) ==
    /\ \A c \in DOMAIN w : FLe(Zero, w[c])
    /\ FSum([i \in 1..Len(w) |-> w[i]]) = One

\* C7 as stated: a call whose inputs pass validation always ends by
\* returning a simplex-feasible vector and never in an error.
C7_AlwaysReturns ==
    (Ended /\ InputsValid) =>
        /\ raised = None
        /\ returned # None
        /\ SimplexFeasible(Portfolio)

\* C7 amended: a call whose inputs pass validation ends either by returning
\* a simplex-feasible vector, or, only when the solver call raised an
\* exception, in the optimization-failure error; a solver that returns
\* without converging never ends the call in an error.
C7_ReturnsUnlessSolverRaises ==
    (Ended /\ InputsValid) =>
        \/ /\ raised = None /\ returned # None
           /\ SimplexFeasible(Portfolio)
           /\ n_assets > 1 => SolverReturned
        \/ /\ raised # None /\ returned = None
           /\ RaisedMsg[1] = FailedMsg
           /\ n_assets > 1 /\ solver_calls = 1 /\ ~SolverReturned

\* Valid inputs, the solver did not converge, and the call returned.
C7_Witness ==
    /\ Ended /\ InputsValid /\ SolverReturned /\ ~Val(result).success
    /\ returned # None /\ raised = None

\* The solver was called and did not return: it raised.
SolverRaised == solver_calls > 0 /\ ~SolverReturned

\* C8: an exception raised inside the solve block ends the call in one
\* ValueError whose message is 'Portfolio optimization failed: ' followed by
\* the original message; the exception does not escape in its original form,
\* nothing is returned and the solver is called once only.
C8_ExceptionWrapped ==
    /\ solver_calls <= 1
    /\ (Ended /\ SolverRaised) =>
          /\ raised # None /\ returned = None
          /\ Val(raised).type = "ValueError"
          /\ Val(raised) \notin SolverExceptions
          /\ \E e \in SolverExceptions : RaisedMsg = <<FailedMsg>> \o e.msg

\* The solver raised and the call has ended.
C8_Witness == Ended /\ SolverRaised /\ raised # None

\* The message of the first check that fails, in the order risk_level,
\* max_weight, min_weight, feasibility.
FirstFailure ==
    IF ~RiskLevelInRange THEN RiskLevelMsg
    ELSE IF ~MaxWeightInRange THEN MaxWeightMsg
    ELSE IF ~MinWeightInRange THEN MinWeightMsg
    ELSE ImpossibleMsg

\* C9: when validation fails the error raised is that of the first failing
\* check in the order risk_level, max_weight, min_weight, feasibility, and
\* the feasibility error is raised only when the three range checks pass.
C9_FirstFailureWins ==
    /\ (Ended /\ ~InputsValid) =>
          /\ raised # None
          /\ RaisedMsg[1] = FirstFailure
          /\ solver_calls = 0
    /\ (Ended /\ raised # None /\ RaisedMsg[1] = ImpossibleMsg) => RangesOk
    /\ pc = "check_max_weight" => RiskLevelInRange
    /\ pc = "check_min_weight" => RiskLevelInRange /\ MaxWeightInRange
    /\ pc = "check_feasible" => RangesOk

\* All four checks fail at once and the risk_level error is the one raised.
C9_Witness ==
    /\ Ended /\ ~RiskLevelInRange /\ ~MaxWeightInRange /\ ~MinWeightInRange
    /\ ProductBelowOne
    /\ raised # None /\ RaisedMsg[1] = RiskLevelMsg

\* At the equal weights: the negative Sharpe ratio, and the penalty for
\* the distance of the volatility from risk_level.
NegSharpe0 == FNeg(PortfolioStats(EqualWeights)[3])
Penalty0 ==
    LET dev == FSub(PortfolioStats(EqualWeights)[2], F(risk_level, Den))
    IN  FMul(F(1000, 1), FMul(dev, dev))

\* C10 as stated: the objective the solver evaluates is the negative Sharpe
\* ratio with no volatility-penalty term, so it does not depend on
\* risk_level.
C10_NoPenalty ==
    objective0 # None => Val(objective0) = NegSharpe0

\* C10 amended: in the multi-asset path risk_level reaches the objective as
\* target_vol, the penalty branch is taken in every evaluation, and the
\* objective the solver minimises is the negative Sharpe ratio plus
\* 1000 * (volatility - risk_level)^2: it depends on risk_level.
C10_PenaltyApplied ==
    /\ (solver_calls > 0) = (objective0 # None)
    /\ objective0 # None =>
          /\ RiskLevelInRange /\ n_assets > 1
          /\ Val(objective0) = FAdd(NegSharpe0, Penalty0)

\* The solver has evaluated an objective that is finite and differs from
\* the negative Sharpe ratio.
C10_Witness ==
    /\ objective0 # None
    /\ IsFin(Val(objective0))
    /\ Val(objective0) # NegSharpe0

Responded == hpc = "responded"
Status == Val(response).status_code

\* C11: a request whose table is empty after dropna ends with status 400 and
\* the 'no valid data' detail, not 500, and no optimizer is constructed;
\* every ValueError of the optimizer reaches the client as status 400; and a
\* 500 is sent only for other, unexpected exceptions.
C11_EmptyDataIs400 ==
    Responded =>
        /\ (df # None /\ DfEmpty(Val(df))) =>
              /\ Status = 400
              /\ Val(response).detail = <<NoValidDataMsg>>
              /\ n_assets = 0
        /\ raised # None => (Status = 400 /\ Val(response).detail = RaisedMsg)
        /\ Status = 500 => (df = None /\ raised = None)

====
